---------------------------- MODULE Spec2Model ----------------------------
(***************************************************************************)
(* Identifier normalisation, quoting and reflection helpers of the         *)
(* Snowflake dialect (base.py).                                            *)
(*                                                                         *)
(* A Python string is a sequence of one-character strings.  A Python value *)
(* is a record with a "kind": None, a str (text + the quote attribute of   *)
(* sqlalchemy's quoted_name; quote = FALSE is a plain str, whose quote     *)
(* attribute is absent), a bool, or a raised exception.                    *)
(***************************************************************************)
EXTENDS Naturals, Sequences, FiniteSets

(* ---------------------------- bounds ----------------------------------- *)
\* longest identifier text drawn as an input
MaxLen == 3
\* most parts handed to one _denormalize_quote_join call
MaxParts == 2
\* concurrent callers sharing one identifier preparer
NumCallers == 2
\* most rows of one SHOW IMPORTED KEYS result
MaxRows == 2
\* longest database component of a URL
MaxDbLen == 3

(* ---------------------------- characters ------------------------------- *)
UPPER == <<"A","B","C","D","E","F","G","H","I","J","K","L","M",
           "N","O","P","Q","R","S","T","U","V","W","X","Y","Z">>
LOWER == <<"a","b","c","d","e","f","g","h","i","j","k","l","m",
           "n","o","p","q","r","s","t","u","v","w","x","y","z">>
DIGITS == {"0","1","2","3","4","5","6","7","8","9"}

IsUpperChar(c) == \E i \in 1..Len(UPPER) : UPPER[i] = c
IsLowerChar(c) == \E i \in 1..Len(LOWER) : LOWER[i] = c

\* str.lower() / str.upper() on one character: letters change case, every
\* other character is kept
LowerChar(c) ==
    IF IsUpperChar(c) THEN LOWER[CHOOSE i \in 1..Len(UPPER) : UPPER[i] = c] ELSE c
UpperChar(c) ==
    IF IsLowerChar(c) THEN UPPER[CHOOSE i \in 1..Len(LOWER) : LOWER[i] = c] ELSE c

LowerText(t) == [i \in 1..Len(t) |-> LowerChar(t[i])]
UpperText(t) == [i \in 1..Len(t) |-> UpperChar(t[i])]

\* the characters identifiers are drawn from: letters in both cases (so that
\* the reserved word "as" occurs), a digit, the legal punctuation, the quote
\* character and the name separator
Alphabet == {"a", "b", "s", "A", "S", "1", "_", "$", "\"", "."}
Texts == UNION {[1..n -> Alphabet] : n \in 0..MaxLen}

(* ---------------------------- Python values ---------------------------- *)
None == [kind |-> "None"]
IndexError == [kind |-> "IndexError"]
ArgumentError == [kind |-> "ArgumentError"]
KeyError == [kind |-> "KeyError"]
Unset == [kind |-> "unset"]
PyBool(b) == [kind |-> "bool", val |-> b]
Str(t, q) == [kind |-> "str", text |-> t, quote |-> q]
IsStr(v) == v.kind = "str"
Raised(v) == v.kind \in {"IndexError", "ArgumentError", "KeyError"}

\* str.__eq__, which quoted_name inherits: the text decides, the flag does not
StrEq(a, b) == a.text = b.text

\* quoted_name.lower() / quoted_name.upper() return self when quote is set;
\* on a plain str they are str.lower() / str.upper()
lower(v) == IF v.quote THEN v ELSE Str(LowerText(v.text), FALSE)
upper(v) == IF v.quote THEN v ELSE Str(UpperText(v.text), FALSE)

\* quoted_name(value, quote=True)
quoted_name(value, q) == IF value = None THEN None ELSE Str(value.text, q)

(* ---------------------------- identifier preparer ---------------------- *)
RESERVED_WORDS == {
    <<"A","L","L">>, <<"A","L","T","E","R">>, <<"A","N","D">>,
    <<"A","N","Y">>, <<"A","S">>, <<"B","E","T","W","E","E","N">>,
    <<"B","Y">>, <<"C","H","E","C","K">>, <<"C","O","L","U","M","N">>,
    <<"C","O","N","N","E","C","T">>, <<"C","R","E","A","T","E">>, <<"C","U","R","R","E","N","T">>,
    <<"D","E","L","E","T","E">>, <<"D","I","S","T","I","N","C","T">>, <<"D","R","O","P">>,
    <<"E","L","S","E">>, <<"E","X","I","S","T","S">>, <<"F","O","R">>,
    <<"F","R","O","M">>, <<"G","R","A","N","T">>, <<"G","R","O","U","P">>,
    <<"H","A","V","I","N","G">>, <<"I","N">>, <<"I","N","S","E","R","T">>,
    <<"I","N","T","E","R","S","E","C","T">>, <<"I","N","T","O">>, <<"I","S">>,
    <<"L","I","K","E">>, <<"N","O","T">>, <<"N","U","L","L">>,
    <<"O","F">>, <<"O","N">>, <<"O","R">>,
    <<"O","R","D","E","R">>, <<"R","E","V","O","K","E">>, <<"R","O","W">>,
    <<"R","O","W","S">>, <<"S","E","L","E","C","T">>, <<"S","E","T">>,
    <<"S","T","A","R","T">>, <<"T","A","B","L","E">>, <<"T","H","E","N">>,
    <<"T","O">>, <<"T","R","I","G","G","E","R">>, <<"U","N","I","O","N">>,
    <<"U","N","I","Q","U","E">>, <<"U","P","D","A","T","E">>, <<"V","A","L","U","E","S">>,
    <<"W","H","E","N","E","V","E","R">>, <<"W","H","E","R","E">>, <<"W","I","T","H">>,
    <<"R","E","G","E","X","P">>, <<"R","L","I","K","E">>, <<"S","O","M","E">>,
    <<"M","I","N","U","S">>, <<"I","N","C","R","E","M","E","N","T">>}

\* reserved_words = set([x.lower() for x in RESERVED_WORDS])
reserved_words == {LowerText(x) : x \in RESERVED_WORDS}

\* IdentifierPreparer defaults the subclass inherits: no digit or "$" first,
\* and only [A-Z0-9_$] (ignoring case) anywhere
illegal_initial_characters == DIGITS \cup {"$"}
legal_characters(t) ==
    /\ Len(t) > 0
    /\ \A i \in 1..Len(t) :
          IsUpperChar(t[i]) \/ IsLowerChar(t[i]) \/ t[i] \in DIGITS \/ t[i] \in {"_", "$"}

initial_quote == "\""
escape_quote == "\""

\* IdentifierPreparer._requires_quotes, with the subclass's reserved_words:
\*   lc_value = value.lower()
\*   return (lc_value in self.reserved_words
\*           or value[0] in self.illegal_initial_characters
\*           or not self.legal_characters.match(value)
\*           or (lc_value != value))
\* value[0] raises IndexError on the empty string
_requires_quotes(value) ==
    LET lc_value == lower(value)
    IN  IF lc_value.text \in reserved_words THEN PyBool(TRUE)
        ELSE IF Len(value.text) = 0 THEN IndexError
        ELSE PyBool(\/ value.text[1] \in illegal_initial_characters
                    \/ ~legal_characters(value.text)
                    \/ ~StrEq(lc_value, value))

RECURSIVE _escape_identifier(_)
\* value.replace(escape_quote, escape_quote + escape_quote)
_escape_identifier(t) ==
    IF t = <<>> THEN <<>>
    ELSE (IF Head(t) = escape_quote THEN <<escape_quote, escape_quote>> ELSE <<Head(t)>>)
         \o _escape_identifier(Tail(t))

quote_identifier_unescaped(value) ==
    Str(<<initial_quote>> \o value.text \o <<initial_quote>>, FALSE)

\* initial_quote + _escape_identifier(value) + final_quote
quote_identifier(value) ==
    Str(<<initial_quote>> \o _escape_identifier(value.text) \o <<initial_quote>>, FALSE)

(* ---------------------------- state ------------------------------------ *)
VARIABLES
    _strings,     \* IdentifierPreparer._strings: the preparer's memo of quote()
    \* one reflection round trip of a name
    name,         \* the identifier handed in (a storage name, or a caller's)
    canonical,    \* normalize_name(name)
    storage,      \* denormalize_name(canonical), or denormalize_name(name)
    recanonical,  \* normalize_name(storage)
    restorage,    \* denormalize_name(recanonical)
    emitted,      \* the name as written into SQL text
    pc,           \* how far the round trip has come
    \* _denormalize_quote_join calls
    idents,       \* caller -> the parts of its call
    pos,          \* caller -> the part its comprehension is at
    quoted,       \* caller -> the parts quoted so far
    op,           \* caller -> the operation it is in
    retval,       \* caller -> what the call returned
    cpc,          \* caller -> its position in the call
    \* create_connect_args
    url, opts, connect_ret, upc,
    \* get_foreign_keys
    table_name, rows, row_idx, foreign_key_map, key_order, fk_ret, fpc

nameVars == <<name, canonical, storage, recanonical, restorage, emitted, pc>>
joinVars == <<idents, pos, quoted, op, retval, cpc>>
connVars == <<url, opts, connect_ret, upc>>
fkVars == <<table_name, rows, row_idx, foreign_key_map, key_order, fk_ret, fpc>>
vars == <<_strings, nameVars, joinVars, connVars, fkVars>>

(* ---------------------------- quote() ---------------------------------- *)
_strings_key_folded(ident) == LowerText(ident.text)

\* the dict key of "ident in self._strings" / "self._strings[ident]": a str
\* hashes and compares by its text
_strings_key(ident) == ident.text

\* what quote() stores for an identifier that is not in the memo:
\*   if self._requires_quotes(ident): self._strings[ident] = self.quote_identifier(ident)
\*   else:                            self._strings[ident] = ident
quote_fresh(ident) ==
    LET r == _requires_quotes(ident)
    IN  IF Raised(r) THEN r
        ELSE IF r.val THEN quote_identifier(ident) ELSE Str(ident.text, FALSE)

\* IdentifierPreparer.quote(ident), run to its end by one caller: the value
\* returned and the memo it leaves.
\*   force = getattr(ident, "quote", None)
\*   if force is None: (memo lookup, else compute, store, return the stored)
\*   elif force:       return self.quote_identifier(ident)
quote(strings, ident) ==
    IF ident.quote
    THEN [ret |-> quote_identifier(ident), strings |-> strings]
    ELSE IF _strings_key(ident) \in DOMAIN strings
    THEN [ret |-> strings[_strings_key(ident)], strings |-> strings]
    ELSE LET v == quote_fresh(ident)
         IN  IF Raised(v) THEN [ret |-> v, strings |-> strings]
             ELSE [ret |-> v,
                   strings |-> [k \in DOMAIN strings \cup {_strings_key(ident)} |->
                                  IF k = _strings_key(ident) THEN v ELSE strings[k]]]

(* ---------------------------- the dialect ------------------------------ *)
normalize_name_unflagged(n) ==
    IF n = None THEN None
    ELSE IF StrEq(upper(n), n) /\ Raised(_requires_quotes(lower(n))) THEN IndexError
    ELSE IF StrEq(upper(n), n) /\ ~_requires_quotes(lower(n)).val THEN lower(n)
    ELSE n

normalize_name_flag_all(n) ==
    IF n = None THEN None
    ELSE IF StrEq(upper(n), n) /\ Raised(_requires_quotes(lower(n))) THEN IndexError
    ELSE IF StrEq(upper(n), n) /\ ~_requires_quotes(lower(n)).val THEN lower(n)
    ELSE quoted_name(n, TRUE)

normalize_name_no_lower(n) ==
    IF n = None THEN None
    ELSE IF StrEq(upper(n), n) /\ Raised(_requires_quotes(n)) THEN IndexError
    ELSE IF StrEq(upper(n), n) /\ ~_requires_quotes(n).val THEN lower(n)
    ELSE IF StrEq(lower(n), n) THEN quoted_name(n, TRUE)
    ELSE n

\* SnowflakeDialect.normalize_name
normalize_name(n) ==
    IF n = None THEN None
    ELSE IF StrEq(upper(n), n) /\ Raised(_requires_quotes(lower(n))) THEN IndexError
    ELSE IF StrEq(upper(n), n) /\ ~_requires_quotes(lower(n)).val THEN lower(n)
    ELSE IF StrEq(lower(n), n) THEN quoted_name(n, TRUE)
    ELSE n

denormalize_name_plain_upper(n) ==
    IF n = None THEN None
    ELSE IF StrEq(lower(n), n) /\ Raised(_requires_quotes(lower(n))) THEN IndexError
    ELSE IF StrEq(lower(n), n) /\ ~_requires_quotes(lower(n)).val
         THEN Str(UpperText(n.text), FALSE)
    ELSE n

\* SnowflakeDialect.denormalize_name
denormalize_name(n) ==
    IF n = None THEN None
    ELSE IF StrEq(lower(n), n) /\ Raised(_requires_quotes(lower(n))) THEN IndexError
    ELSE IF StrEq(lower(n), n) /\ ~_requires_quotes(lower(n)).val THEN upper(n)
    ELSE n

RECURSIVE join(_, _)
\* sep.join(items)
join(sep, items) ==
    IF items = <<>> THEN <<>>
    ELSE IF Len(items) = 1 THEN items[1]
    ELSE items[1] \o <<sep>> \o join(sep, Tail(items))

RECURSIVE _quote_free_identifiers_keep_none(_, _)
_quote_free_identifiers_keep_none(strings, ids) ==
    IF ids = <<>> THEN [exc |-> None, items |-> <<>>, strings |-> strings]
    ELSE IF Head(ids) = None
    THEN LET rest == _quote_free_identifiers_keep_none(strings, Tail(ids))
         IN  [rest EXCEPT !.items = <<<<>>>> \o @]
    ELSE LET q == quote(strings, Head(ids))
         IN  IF Raised(q.ret) THEN [exc |-> q.ret, items |-> <<>>, strings |-> q.strings]
             ELSE LET rest == _quote_free_identifiers_keep_none(q.strings, Tail(ids))
                  IN  [rest EXCEPT !.items = <<q.ret.text>> \o @]

RECURSIVE _quote_free_identifiers(_, _)
\* SnowflakeIdentifierPreparer._quote_free_identifiers, run to its end by one
\* caller: tuple([self.quote(i) for i in ids if i is not None]); exc is the
\* exception a quote() raised, if one did
_quote_free_identifiers(strings, ids) ==
    IF ids = <<>> THEN [exc |-> None, items |-> <<>>, strings |-> strings]
    ELSE IF Head(ids) = None THEN _quote_free_identifiers(strings, Tail(ids))
    ELSE LET q == quote(strings, Head(ids))
         IN  IF Raised(q.ret) THEN [exc |-> q.ret, items |-> <<>>, strings |-> q.strings]
             ELSE LET rest == _quote_free_identifiers(q.strings, Tail(ids))
                  IN  [rest EXCEPT !.items = <<q.ret.text>> \o @]

\* SnowflakeDialect._denormalize_quote_join:
\*   '.'.join(self.identifier_preparer._quote_free_identifiers(*idents))
_denormalize_quote_join(strings, ids) ==
    LET r == _quote_free_identifiers(strings, ids)
    IN  [ret |-> IF r.exc # None THEN r.exc ELSE Str(join(".", r.items), FALSE),
         strings |-> r.strings]

(* ---------------------------- a name's round trip ---------------------- *)
Names == {None} \cup {Str(t, q) : t \in Texts, q \in BOOLEAN}

idleJoin ==
    /\ idents = [c \in 1..NumCallers |-> <<>>]
    /\ pos = [c \in 1..NumCallers |-> 0]
    /\ quoted = [c \in 1..NumCallers |-> <<>>]
    /\ op = [c \in 1..NumCallers |-> "none"]
    /\ retval = [c \in 1..NumCallers |-> Unset]
    /\ cpc = [c \in 1..NumCallers |-> "idle"]
idleName ==
    /\ name = None /\ canonical = Unset /\ storage = Unset /\ recanonical = Unset
    /\ restorage = Unset /\ emitted = Unset /\ pc = "off"
idleConn == url = Unset /\ opts = Unset /\ connect_ret = Unset /\ upc = "off"
idleFk ==
    /\ table_name = Unset /\ rows = <<>> /\ row_idx = 0 /\ foreign_key_map = <<>>
    /\ key_order = <<>> /\ fk_ret = Unset /\ fpc = "off"

Init ==
    /\ _strings = <<>>
    /\ name \in Names
    /\ canonical = Unset /\ storage = Unset /\ recanonical = Unset
    /\ restorage = Unset /\ emitted = Unset
    /\ pc = "start"
    /\ idleJoin /\ idleConn /\ idleFk

after(v, next) == IF Raised(v) THEN "raised" ELSE next

\* a reflection method reads a name from a result row: normalize_name(row[..])
Normalize ==
    /\ pc = "start"
    /\ canonical' = normalize_name(name)
    /\ pc' = after(canonical', "canonical")
    /\ UNCHANGED <<_strings, name, storage, recanonical, restorage, emitted,
                   joinVars, connVars, fkVars>>

\* ... and hands it back to the engine: denormalize_name(schema)
Denormalize ==
    /\ pc = "canonical"
    /\ storage' = denormalize_name(canonical)
    /\ pc' = after(storage', "storage")
    /\ UNCHANGED <<_strings, name, canonical, recanonical, restorage, emitted,
                   joinVars, connVars, fkVars>>

Renormalize ==
    /\ pc = "storage"
    /\ recanonical' = normalize_name(storage)
    /\ pc' = after(recanonical', "recanonical")
    /\ UNCHANGED <<_strings, name, canonical, storage, restorage, emitted,
                   joinVars, connVars, fkVars>>

Redenormalize ==
    /\ pc = "recanonical"
    /\ restorage' = denormalize_name(recanonical)
    /\ pc' = after(restorage', "restorage")
    /\ UNCHANGED <<_strings, name, canonical, storage, recanonical, emitted,
                   joinVars, connVars, fkVars>>

\* a caller's own identifier goes to the engine: denormalize_name(table_name)
DenormalizeGiven ==
    /\ pc = "start"
    /\ storage' = denormalize_name(name)
    /\ pc' = after(storage', "given_storage")
    /\ UNCHANGED <<_strings, name, canonical, recanonical, restorage, emitted,
                   joinVars, connVars, fkVars>>

\* the one call site of quote(): self.quote(i) for i in ids if i is not None
QuoteGiven ==
    /\ pc = "start"
    /\ name # None
    /\ LET q == quote(_strings, name)
       IN  /\ emitted' = q.ret
           /\ _strings' = q.strings
           /\ pc' = after(q.ret, "given_emitted")
    /\ UNCHANGED <<name, canonical, storage, recanonical, restorage,
                   joinVars, connVars, fkVars>>

QuoteCanonical ==
    /\ pc = "canonical"
    /\ canonical # None
    /\ LET q == quote(_strings, canonical)
       IN  /\ emitted' = q.ret
           /\ _strings' = q.strings
           /\ pc' = after(q.ret, "emitted")
    /\ UNCHANGED <<name, canonical, storage, recanonical, restorage,
                   joinVars, connVars, fkVars>>

Next ==
    \/ Normalize \/ Denormalize \/ Renormalize \/ Redenormalize
    \/ DenormalizeGiven \/ QuoteGiven \/ QuoteCanonical

Spec == Init /\ [][Next]_vars

(* ---------------------------- properties of names ---------------------- *)
EntirelyUpper(t) == UpperText(t) = t
EntirelyLower(t) == LowerText(t) = t
HasLowerLetter(t) == \E i \in 1..Len(t) : IsLowerChar(t[i])
HasUpperLetter(t) == \E i \in 1..Len(t) : IsUpperChar(t[i])
PlainStr(v) == IsStr(v) /\ ~v.quote
\* the engine's unquoted storage: upper case, and bare once lower-cased
WellFormedUpper(t) ==
    /\ EntirelyUpper(t)
    /\ ~Raised(_requires_quotes(Str(LowerText(t), FALSE)))
    /\ ~_requires_quotes(Str(LowerText(t), FALSE)).val

Count(t, ch) == Cardinality({i \in 1..Len(t) : t[i] = ch})
Inner(t) == SubSeq(t, 2, Len(t) - 1)
RECURSIVE Undouble(_)
\* a quoted identifier's text read back: each doubled quote character is one
Undouble(t) ==
    IF t = <<>> THEN <<>>
    ELSE IF Len(t) >= 2 /\ t[1] = "\"" /\ t[2] = "\""
         THEN <<"\"">> \o Undouble(SubSeq(t, 3, Len(t)))
    ELSE <<Head(t)>> \o Undouble(Tail(t))
\* out is t between quote characters with every quote character of t doubled
IsQuotedForm(out, t) ==
    /\ Len(out) = Len(t) + Count(t, "\"") + 2
    /\ out[1] = "\"" /\ out[Len(out)] = "\""
    /\ Undouble(Inner(out)) = t
    /\ Count(Inner(out), "\"") = 2 * Count(t, "\"")

\* C1: a storage name that is well-formed upper case, or entirely lower case,
\* comes back from normalize_name then denormalize_name as the same text; a
\* lower-case name that normalize_name flagged is not upper-cased again.
\* (The round trip of the empty string does not run: normalize_name raises.)
C1_RoundTrip ==
    (/\ pc = "storage"
     /\ PlainStr(name)
     /\ WellFormedUpper(name.text) \/ EntirelyLower(name.text))
    => /\ IsStr(storage)
       /\ StrEq(storage, name)
C1_Witness ==
    /\ pc = "storage"
    /\ PlainStr(name)
    /\ EntirelyLower(name.text) /\ HasLowerLetter(name.text)
    /\ ~_requires_quotes(name).val
    /\ canonical.quote
    /\ storage.text = name.text

\* C2: a canonical identifier that normalize_name produced goes to storage
\* form and back to the same identifier, quote flag included, whether the
\* storage form is handed on as the object or read again as plain text; a
\* second canonical -> storage -> canonical pass changes nothing.
C2_Lossless ==
    /\ (pc = "recanonical" /\ name # None) =>
          /\ recanonical = canonical
          /\ PlainStr(name) => normalize_name(Str(storage.text, FALSE)) = canonical
    /\ (pc = "restorage" /\ name # None) =>
          /\ restorage = storage
          /\ normalize_name(restorage) = recanonical
          /\ recanonical = canonical
C2_Witness ==
    /\ pc = "restorage"
    /\ PlainStr(name)
    /\ canonical.quote
    /\ HasLowerLetter(canonical.text)
    /\ restorage = storage
    /\ ~_requires_quotes(Str(canonical.text, FALSE)).val

\* C3 (as claimed): normalize_name returns the lower-cased name exactly when
\* the name is entirely upper case and bare once lower-cased, and in every
\* other case the unchanged text flagged as quoted.
C3_AlwaysFlagged ==
    (pc = "canonical" /\ PlainStr(name)) =>
        IF WellFormedUpper(name.text)
        THEN canonical = Str(LowerText(name.text), FALSE)
        ELSE canonical.text = name.text /\ canonical.quote
\* C3 (amended): normalize_name returns the lower-cased name, unflagged,
\* exactly when the name is entirely upper case and bare once lower-cased;
\* in every other case the text is unchanged and carries the quoted flag
\* only if it is entirely lower case.  An unflagged mixed-case or
\* must-quote upper-case name is still quoted when it is emitted, because
\* _requires_quotes is true of it.
C3_FlagOnlyLower ==
    /\ (pc = "canonical" /\ PlainStr(name)) =>
          IF WellFormedUpper(name.text)
          THEN canonical = Str(LowerText(name.text), FALSE)
          ELSE /\ canonical.text = name.text
               /\ canonical.quote <=> EntirelyLower(name.text)
    /\ (pc = "emitted" /\ PlainStr(name) /\ ~WellFormedUpper(name.text)) =>
          IsQuotedForm(emitted.text, name.text)
C3_Witness ==
    /\ pc = "emitted"
    /\ PlainStr(name)
    /\ HasLowerLetter(name.text) /\ HasUpperLetter(name.text)
    /\ canonical = name
    /\ IsQuotedForm(emitted.text, name.text)

\* C4: normalize_name, denormalize_name and the quoting of a part never fail
\* on a string or on None; None and the empty string come back as they are.
C4_NeverFails ==
    /\ pc # "raised"
    /\ ~Raised(canonical) /\ ~Raised(storage) /\ ~Raised(emitted)
    /\ (pc = "canonical" /\ name = None) => canonical = None
    /\ (pc = "canonical" /\ IsStr(name) /\ name.text = <<>>) => canonical.text = <<>>

OnlyUpperDigitsUnderscore(t) ==
    \A i \in 1..Len(t) : IsUpperChar(t[i]) \/ t[i] \in DIGITS \/ t[i] = "_"
\* C6 (as claimed): an identifier of upper-case letters, digits and
\* underscores that is not a reserved word does not require quoting, and is
\* emitted bare.
C6_UpperIsBare ==
    (/\ pc = "given_emitted"
     /\ PlainStr(name)
     /\ OnlyUpperDigitsUnderscore(name.text)
     /\ name.text \notin RESERVED_WORDS)
    => /\ ~_requires_quotes(name).val
       /\ emitted.text = name.text
\* C6 (amended): for an identifier of upper-case letters, digits and
\* underscores that starts with a letter or an underscore and is not a
\* reserved word, _requires_quotes is false of its lower-cased form, which
\* is what normalize_name asks: the name is reflected as the lower-cased
\* text, unflagged, and that is emitted bare.
C6_LoweredIsBare ==
    (/\ PlainStr(name)
     /\ OnlyUpperDigitsUnderscore(name.text)
     /\ Len(name.text) > 0
     /\ name.text[1] \notin DIGITS
     /\ name.text \notin RESERVED_WORDS)
    => /\ pc = "canonical" => canonical = Str(LowerText(name.text), FALSE)
       /\ pc = "emitted" => emitted = Str(LowerText(name.text), FALSE)
C6_Witness ==
    /\ pc = "emitted"
    /\ PlainStr(name)
    /\ OnlyUpperDigitsUnderscore(name.text)
    /\ HasUpperLetter(name.text)
    /\ \E i \in 1..Len(name.text) : name.text[i] \in DIGITS
    /\ emitted.text = LowerText(name.text)

\* C7: quote() returns the identifier between quote characters, with every
\* quote character inside doubled, when _requires_quotes is true of it or it
\* carries the quoted flag, and the identifier unchanged otherwise; a
\* storage name in lower-case letters (at least one, and none upper-case),
\* once reflected, is emitted quoted.
C7_QuoteIfNeeded ==
    /\ (pc = "given_emitted") =>
          IF name.quote \/ _requires_quotes(name).val
          THEN IsQuotedForm(emitted.text, name.text)
          ELSE emitted.text = name.text
    /\ (/\ pc = "emitted"
        /\ PlainStr(name)
        /\ EntirelyLower(name.text) /\ HasLowerLetter(name.text))
       => IsQuotedForm(emitted.text, name.text)
C7_Witness ==
    /\ pc = "given_emitted"
    /\ name = Str(<<"a", "\"", "b">>, FALSE)
    /\ emitted.text = <<"\"", "a", "\"", "\"", "b", "\"">>

(* ---------------------------- qualified names -------------------------- *)
\* the parts one call is given: a schema or table qualifier may be None
JoinTexts == {<<>>, <<"a">>, <<"A">>, <<".">>, <<"a", "\"">>, <<"a", "s">>}
JoinParts ==
    {None} \cup {Str(t, FALSE) : t \in JoinTexts} \cup {Str(<<"a">>, TRUE), Str(<<>>, TRUE)}
JoinArgs == UNION {[1..n -> JoinParts] : n \in 0..MaxParts}

InitJoin ==
    /\ _strings = <<>>
    /\ idents \in {[c \in 1..NumCallers |-> IF c = 1 THEN a ELSE <<>>] : a \in JoinArgs}
    /\ pos = [c \in 1..NumCallers |-> 0]
    /\ quoted = [c \in 1..NumCallers |-> <<>>]
    /\ op = [c \in 1..NumCallers |-> "none"]
    /\ retval = [c \in 1..NumCallers |-> Unset]
    /\ cpc = [c \in 1..NumCallers |-> "idle"]
    /\ idleName /\ idleConn /\ idleFk

\* full_name = self._denormalize_quote_join(schema, object_name)
QuoteJoin ==
    /\ cpc[1] = "idle"
    /\ LET r == _denormalize_quote_join(_strings, idents[1])
       IN  /\ retval' = [retval EXCEPT ![1] = r.ret]
           /\ _strings' = r.strings
    /\ op' = [op EXCEPT ![1] = "join"]
    /\ cpc' = [cpc EXCEPT ![1] = "returned"]
    /\ UNCHANGED <<idents, pos, quoted, nameVars, connVars, fkVars>>

\* the same name is qualified again by a later reflection call, with the
\* preparer's memo as the first call left it
QuoteJoinAgain ==
    /\ cpc[1] = "returned"
    /\ cpc[2] = "idle"
    /\ LET r == _denormalize_quote_join(_strings, idents[1])
       IN  /\ retval' = [retval EXCEPT ![2] = r.ret]
           /\ _strings' = r.strings
    /\ idents' = [idents EXCEPT ![2] = idents[1]]
    /\ op' = [op EXCEPT ![2] = "join"]
    /\ cpc' = [cpc EXCEPT ![2] = "returned"]
    /\ UNCHANGED <<pos, quoted, nameVars, connVars, fkVars>>

NextJoin == QuoteJoin \/ QuoteJoinAgain
SpecJoin == InitJoin /\ [][NextJoin]_vars

RECURSIVE SplitBare(_, _, _)
\* text cut at the separators that are outside quote characters; inq tells
\* whether the scan is inside a quoted identifier, cur is the piece so far
SplitBare(t, inq, cur) ==
    IF t = <<>> THEN <<cur>>
    ELSE IF Head(t) = "." /\ ~inq THEN <<cur>> \o SplitBare(Tail(t), FALSE, <<>>)
    ELSE SplitBare(Tail(t), IF Head(t) = "\"" THEN ~inq ELSE inq, cur \o <<Head(t)>>)
Present(ids) == SelectSeq(ids, LAMBDA i : i # None)
\* piece is what quote() makes of part
IsQuoteOf(piece, part) ==
    IF part.quote \/ _requires_quotes(part).val
    THEN IsQuotedForm(piece, part.text)
    ELSE piece = part.text

Callers == 1..NumCallers
HotParts == {None, Str(<<"a">>, FALSE), Str(<<"A">>, FALSE), Str(<<"a">>, TRUE),
             Str(<<>>, FALSE)}
\* self._denormalize_quote_join(schema, object_name)
HotArgs == {<<s, t>> : s \in HotParts \ {Str(<<"a">>, FALSE)},
                       t \in {Str(<<"a">>, FALSE), Str(<<"A">>, FALSE)}}

InitConc ==
    /\ _strings = <<>>
    /\ idleJoin /\ idleName /\ idleConn /\ idleFk

part(c) == idents[c][pos[c]]

store_under(strings, k, v) ==
    [x \in DOMAIN strings \cup {k} |-> IF x = k THEN v ELSE strings[x]]

\* a thread enters _denormalize_quote_join(*idents)
BeginJoin(c, args) ==
    /\ cpc[c] = "idle"
    /\ idents' = [idents EXCEPT ![c] = args]
    /\ op' = [op EXCEPT ![c] = "join"]
    /\ pos' = [pos EXCEPT ![c] = 1]
    /\ quoted' = [quoted EXCEPT ![c] = <<>>]
    /\ cpc' = [cpc EXCEPT ![c] = "iter"]
    /\ UNCHANGED <<_strings, retval, nameVars, connVars, fkVars>>

\* for i in ids if i is not None: a None part is passed over
SkipNone(c) ==
    /\ cpc[c] = "iter" /\ pos[c] <= Len(idents[c])
    /\ part(c) = None
    /\ pos' = [pos EXCEPT ![c] = @ + 1]
    /\ UNCHANGED <<_strings, idents, quoted, op, retval, cpc, nameVars, connVars, fkVars>>

\* quote(): force is True, return self.quote_identifier(ident)
QuoteForced(c) ==
    /\ cpc[c] = "iter" /\ pos[c] <= Len(idents[c])
    /\ part(c) # None /\ part(c).quote
    /\ quoted' = [quoted EXCEPT ![c] = Append(@, quote_identifier(part(c)).text)]
    /\ pos' = [pos EXCEPT ![c] = @ + 1]
    /\ UNCHANGED <<_strings, idents, op, retval, cpc, nameVars, connVars, fkVars>>

\* quote(): force is None, if ident in self._strings
Lookup(c) ==
    /\ cpc[c] = "iter" /\ pos[c] <= Len(idents[c])
    /\ part(c) # None /\ ~part(c).quote
    /\ cpc' = [cpc EXCEPT ![c] =
                 IF _strings_key(part(c)) \in DOMAIN _strings THEN "fetch" ELSE "compute"]
    /\ UNCHANGED <<_strings, idents, pos, quoted, op, retval, nameVars, connVars, fkVars>>

\* quote(): self._strings[ident] = self.quote_identifier(ident), or = ident
Compute(c) ==
    /\ cpc[c] = "compute"
    /\ LET v == quote_fresh(part(c))
       IN  IF Raised(v)
           THEN /\ retval' = [retval EXCEPT ![c] = v]
                /\ cpc' = [cpc EXCEPT ![c] = "done"]
                /\ UNCHANGED _strings
           ELSE /\ _strings' = store_under(_strings, _strings_key(part(c)), v)
                /\ cpc' = [cpc EXCEPT ![c] = "fetch"]
                /\ UNCHANGED retval
    /\ UNCHANGED <<idents, pos, quoted, op, nameVars, connVars, fkVars>>

\* quote(): return self._strings[ident]
Fetch(c) ==
    /\ cpc[c] = "fetch"
    /\ quoted' = [quoted EXCEPT ![c] = Append(@, _strings[_strings_key(part(c))].text)]
    /\ pos' = [pos EXCEPT ![c] = @ + 1]
    /\ cpc' = [cpc EXCEPT ![c] = "iter"]
    /\ UNCHANGED <<_strings, idents, op, retval, nameVars, connVars, fkVars>>

\* '.'.join(...) of the quoted parts is returned
FinishJoin(c) ==
    /\ cpc[c] = "iter" /\ pos[c] > Len(idents[c])
    /\ retval' = [retval EXCEPT ![c] = Str(join(".", quoted[c]), FALSE)]
    /\ cpc' = [cpc EXCEPT ![c] = "done"]
    /\ UNCHANGED <<_strings, idents, pos, quoted, op, nameVars, connVars, fkVars>>

\* normalize_name and denormalize_name read the preparer's reserved words and
\* nothing a thread writes
CallNormalize(c, n) ==
    /\ cpc[c] = "idle"
    /\ idents' = [idents EXCEPT ![c] = <<n>>]
    /\ op' = [op EXCEPT ![c] = "normalize"]
    /\ retval' = [retval EXCEPT ![c] = normalize_name(n)]
    /\ cpc' = [cpc EXCEPT ![c] = "done"]
    /\ UNCHANGED <<_strings, pos, quoted, nameVars, connVars, fkVars>>

CallDenormalize(c, n) ==
    /\ cpc[c] = "idle"
    /\ idents' = [idents EXCEPT ![c] = <<n>>]
    /\ op' = [op EXCEPT ![c] = "denormalize"]
    /\ retval' = [retval EXCEPT ![c] = denormalize_name(n)]
    /\ cpc' = [cpc EXCEPT ![c] = "done"]
    /\ UNCHANGED <<_strings, pos, quoted, nameVars, connVars, fkVars>>

\* the thread takes its result and is free for its next call
Return(c) ==
    /\ cpc[c] = "done"
    /\ idents' = [idents EXCEPT ![c] = <<>>]
    /\ op' = [op EXCEPT ![c] = "none"]
    /\ pos' = [pos EXCEPT ![c] = 0]
    /\ quoted' = [quoted EXCEPT ![c] = <<>>]
    /\ retval' = [retval EXCEPT ![c] = Unset]
    /\ cpc' = [cpc EXCEPT ![c] = "idle"]
    /\ UNCHANGED <<_strings, nameVars, connVars, fkVars>>

NextConc ==
    \E c \in Callers :
        \/ \E args \in HotArgs : BeginJoin(c, args)
        \/ SkipNone(c) \/ QuoteForced(c) \/ Lookup(c) \/ Compute(c) \/ Fetch(c)
        \/ FinishJoin(c)
        \/ \E n \in HotParts : CallNormalize(c, n)
        \/ \E n \in HotParts : CallDenormalize(c, n)
        \/ Return(c)
SpecConc == InitConc /\ [][NextConc]_vars

\* the same call made alone, on a preparer nobody else uses
Alone(o, args) ==
    CASE o = "join" -> _denormalize_quote_join(<<>>, args).ret
      [] o = "normalize" -> normalize_name(args[1])
      [] o = "denormalize" -> denormalize_name(args[1])

\* C8: however the callers' steps interleave, every call returns what the
\* same call returns when made alone, and the memo only ever holds, for a
\* text, what quote() computes for that text: the memo is not observable.
C8_CallersDoNotInterfere ==
    /\ \A c \in Callers : cpc[c] = "done" => retval[c] = Alone(op[c], idents[c])
    /\ \A k \in DOMAIN _strings : _strings[k] = quote_fresh(Str(k, FALSE))
    /\ \A c \in Callers :
          cpc[c] = "fetch" => _strings_key(part(c)) \in DOMAIN _strings
\* two callers raced on one identifier: one saw it missing, the other has
\* stored it since and returned, and a third part is about to be recomputed
C8_Witness ==
    \E c, d \in Callers :
        /\ c # d
        /\ cpc[c] = "done" /\ op[c] = "join"
        /\ IsStr(retval[c])
        /\ retval[c].text = <<"\"", "A", "\"", ".", "a">>
        /\ cpc[d] = "compute"
        /\ part(d) = Str(<<"a">>, FALSE)
        /\ <<"a">> \in DOMAIN _strings

(* ---------------------------- create_connect_args ---------------------- *)
\* a dict, as a function from its keys; d.update(e)
update(d, e) == [k \in DOMAIN d \cup DOMAIN e |-> IF k \in DOMAIN e THEN e[k] ELSE d[k]]
setitem(d, k, v) == [x \in DOMAIN d \cup {k} |-> IF x = k THEN v ELSE d[x]]
\* bool(v) of an attribute of the URL: None and the empty string are false
truthy(v) == v # None /\ v.text # <<>>

RECURSIVE split(_, _, _)
\* str.split(sep): cur is the segment being read
split(t, sep, cur) ==
    IF t = <<>> THEN <<cur>>
    ELSE IF Head(t) = sep THEN <<cur>> \o split(Tail(t), sep, <<>>)
    ELSE split(Tail(t), sep, cur \o <<Head(t)>>)

\* url.translate_connect_args(username='user'): the attributes of the URL
\* that are set, under their names, username under 'user'
translate_connect_args(u) ==
    LET present == {a \in {"host", "database", "username", "password", "port"} : truthy(u[a])}
        key(a) == IF a = "username" THEN "user" ELSE a
    IN  [k \in {key(a) : a \in present} |-> IF k = "user" THEN u["username"] ELSE u[k]]

name_spaces_first_two(o) ==
    IF "database" \notin DOMAIN o THEN o
    ELSE LET name_spaces == split(o["database"].text, "/", <<>>)
         IN  IF Len(name_spaces) = 1 THEN o
             ELSE setitem(setitem(o, "database", Str(name_spaces[1], FALSE)),
                          "schema", Str(name_spaces[2], FALSE))

\* if 'database' in opts: the database is split at '/' into database and
\* schema; more than two segments raise ArgumentError
name_spaces(o) ==
    IF "database" \notin DOMAIN o THEN o
    ELSE LET name_spaces == split(o["database"].text, "/", <<>>)
         IN  IF Len(name_spaces) = 1 THEN o
             ELSE IF Len(name_spaces) = 2
             THEN setitem(setitem(o, "database", Str(name_spaces[1], FALSE)),
                          "schema", Str(name_spaces[2], FALSE))
             ELSE ArgumentError

\* '.snowflakecomputing.com'
snowflake_domain ==
    <<".", "s", "n", "o", "w", "f", "l", "a", "k", "e", "c", "o", "m", "p", "u", "t", "i",
      "n", "g", ".", "c", "o", "m">>

\* if '.' not in opts['host']: the host is an account name
account_host(o) ==
    IF "host" \notin DOMAIN o THEN KeyError
    ELSE IF \E i \in 1..Len(o["host"].text) : o["host"].text[i] = "." THEN o
    ELSE LET h == o["host"].text
         IN  setitem(setitem(setitem(o, "account", Str(h, FALSE)),
                             "host", Str(h \o snowflake_domain, FALSE)),
                     "port", Str(<<"4", "4", "3">>, FALSE))

DbAlphabet == {"d", "e", "/"}
DbTexts == UNION {[1..n -> DbAlphabet] : n \in 0..MaxDbLen}
Opt(t) == {None, Str(t, FALSE)}
Queries == {
    [x \in {} |-> None],
    [x \in {"autocommit"} |-> Str(<<"t">>, FALSE)],
    [x \in {"schema"} |-> Str(<<"q">>, FALSE)],
    [x \in {"autocommit", "schema"} |-> IF x = "schema" THEN Str(<<"q">>, FALSE)
                                          ELSE Str(<<"t">>, FALSE)]}
Urls == {[host |-> h, database |-> d, username |-> u, password |-> w, port |-> p,
          query |-> q] :
            h \in {None, Str(<<"h">>, FALSE), Str(<<"h", ".", "c">>, FALSE)},
            d \in {None} \cup {Str(t, FALSE) : t \in DbTexts},
            u \in Opt(<<"u">>), w \in Opt(<<"w">>), p \in Opt(<<"1">>), q \in Queries}

InitConn ==
    /\ _strings = <<>>
    /\ url \in Urls
    /\ opts = Unset /\ connect_ret = Unset /\ upc = "start"
    /\ idleJoin /\ idleName /\ idleFk

\* opts = url.translate_connect_args(username='user')
Translate ==
    /\ upc = "start"
    /\ opts' = translate_connect_args(url)
    /\ upc' = "translated"
    /\ UNCHANGED <<_strings, url, connect_ret, nameVars, joinVars, fkVars>>

NameSpaces ==
    /\ upc = "translated"
    /\ LET o == name_spaces(opts)
       IN  IF o = ArgumentError
           THEN connect_ret' = ArgumentError /\ upc' = "raised" /\ UNCHANGED opts
           ELSE opts' = o /\ upc' = "namespaced" /\ UNCHANGED connect_ret
    /\ UNCHANGED <<_strings, url, nameVars, joinVars, fkVars>>

AccountHost ==
    /\ upc = "namespaced"
    /\ LET o == account_host(opts)
       IN  IF o = KeyError
           THEN connect_ret' = KeyError /\ upc' = "raised" /\ UNCHANGED opts
           ELSE opts' = o /\ upc' = "hosted" /\ UNCHANGED connect_ret
    /\ UNCHANGED <<_strings, url, nameVars, joinVars, fkVars>>

\* opts['autocommit'] = False; opts.update(url.query); return ([], opts)
ReturnArgs ==
    /\ upc = "hosted"
    /\ opts' = update(setitem(opts, "autocommit", PyBool(FALSE)), url.query)
    /\ connect_ret' = [args |-> <<>>, opts |-> opts']
    /\ upc' = "returned"
    /\ UNCHANGED <<_strings, url, nameVars, joinVars, fkVars>>

NextConn == Translate \/ NameSpaces \/ AccountHost \/ ReturnArgs
SpecConn == InitConn /\ [][NextConn]_vars

Slashes(t) == Count(t, "/")
FirstSlash(t) == CHOOSE i \in 1..Len(t) : t[i] = "/" /\ \A j \in 1..(i - 1) : t[j] # "/"
BeforeSlash(t) == SubSeq(t, 1, FirstSlash(t) - 1)
AfterSlash(t) == SubSeq(t, FirstSlash(t) + 1, Len(t))
HasDatabase == truthy(url.database)

\* C9: with a database in the URL, no '/' leaves the database as it is and
\* derives no schema; one '/' makes the first segment the database and the
\* second the schema; two or more raise ArgumentError and nothing is
\* returned.  Whatever is returned has an empty argument list, and its
\* 'autocommit' is False unless the query string holds one, which wins.
C9_ConnectArgs ==
    /\ (HasDatabase /\ Slashes(url.database.text) >= 2) =>
          /\ upc \in {"start", "translated", "raised"}
          /\ upc = "raised" => connect_ret = ArgumentError
          /\ opts # Unset => opts["database"] = url.database
    /\ (HasDatabase /\ Slashes(url.database.text) = 0 /\ upc = "namespaced") =>
          /\ opts["database"] = url.database
          /\ "schema" \notin DOMAIN opts
    /\ (HasDatabase /\ Slashes(url.database.text) = 1 /\ upc = "namespaced") =>
          /\ opts["database"].text = BeforeSlash(url.database.text)
          /\ opts["schema"].text = AfterSlash(url.database.text)
    /\ connect_ret = ArgumentError => (HasDatabase /\ Slashes(url.database.text) >= 2)
    /\ upc = "returned" =>
          /\ connect_ret.args = <<>>
          /\ connect_ret.opts = opts
          /\ opts["autocommit"] = IF "autocommit" \in DOMAIN url.query
                                  THEN url.query["autocommit"] ELSE PyBool(FALSE)
          /\ HasDatabase =>
                /\ Slashes(url.database.text) <= 1
                /\ opts["database"].text =
                      IF Slashes(url.database.text) = 0 THEN url.database.text
                      ELSE BeforeSlash(url.database.text)
                /\ "schema" \in DOMAIN opts <=>
                      (Slashes(url.database.text) = 1 \/ "schema" \in DOMAIN url.query)
                /\ ("schema" \in DOMAIN opts /\ "schema" \notin DOMAIN url.query) =>
                      opts["schema"].text = AfterSlash(url.database.text)
C9_Witness ==
    /\ upc = "returned"
    /\ url.database = Str(<<"d", "/", "e">>, FALSE)
    /\ "autocommit" \in DOMAIN url.query
    /\ connect_ret.opts["database"].text = <<"d">>
    /\ connect_ret.opts["schema"].text = <<"e">>
    /\ connect_ret.opts["autocommit"] = Str(<<"t">>, FALSE)

(* ---------------------------- get_foreign_keys ------------------------- *)
\* one row of SHOW IMPORTED KEYS IN SCHEMA, by column name
FkRows ==
    [fk_name : {<<"F">>, <<"G">>},
     fk_table_name : {Str(<<"T">>, FALSE), Str(<<"t">>, FALSE), Str(<<"U">>, FALSE)},
     fk_column_name : {Str(<<"C">>, FALSE), Str(<<"D">>, FALSE)},
     pk_schema_name : {Str(<<"P">>, FALSE)},
     pk_table_name : {Str(<<"Q">>, FALSE), Str(<<"R">>, FALSE)},
     pk_column_name : {Str(<<"K">>, FALSE)}]
RowSeqs == UNION {[1..n -> FkRows] : n \in 0..MaxRows}

\* constrained_table == table_name, a comparison of strings; None equals no
\* string
py_eq(a, b) == IF a = None \/ b = None THEN a = b ELSE StrEq(a, b)

row_matches_any(row, t) == TRUE

\* constrained_table = self.normalize_name(row[n2i['fk_table_name']])
\* if constrained_table == table_name:
row_matches(row, t) == py_eq(normalize_name(row.fk_table_name), t)

\* the body of "if constrained_table == table_name:": a new name gets an
\* entry, a known one gets the row's column pair appended
add_row(m, row) ==
    LET key == row.fk_name
        constrained_column == normalize_name(row.fk_column_name)
        referred_schema == normalize_name(row.pk_schema_name)
        referred_table == normalize_name(row.pk_table_name)
        referred_column == normalize_name(row.pk_column_name)
    IN  IF key \notin DOMAIN m
        THEN setitem(m, key,
                     [constrained_columns |-> <<constrained_column>>,
                      referred_schema |-> referred_schema,
                      referred_table |-> referred_table,
                      referred_columns |-> <<referred_column>>])
        ELSE [m EXCEPT ![key] =
                [@ EXCEPT !.constrained_columns = Append(@, constrained_column),
                          !.referred_columns = Append(@, referred_column)]]

InitFk ==
    /\ _strings = <<>>
    /\ table_name = Str(<<"t">>, FALSE)
    /\ rows \in RowSeqs
    /\ row_idx = 1
    /\ foreign_key_map = [x \in {} |-> None]
    /\ key_order = <<>>
    /\ fk_ret = <<>>
    /\ fpc = "rows"
    /\ idleJoin /\ idleName /\ idleConn

\* for row in result: a row of the requested table
TakeRow ==
    /\ fpc = "rows" /\ row_idx <= Len(rows)
    /\ row_matches(rows[row_idx], table_name)
    /\ foreign_key_map' = add_row(foreign_key_map, rows[row_idx])
    /\ row_idx' = row_idx + 1
    /\ UNCHANGED <<_strings, table_name, rows, key_order, fk_ret, fpc,
                   nameVars, joinVars, connVars>>

\* for row in result: a row of another table
PassRow ==
    /\ fpc = "rows" /\ row_idx <= Len(rows)
    /\ ~row_matches(rows[row_idx], table_name)
    /\ row_idx' = row_idx + 1
    /\ UNCHANGED <<_strings, table_name, rows, foreign_key_map, key_order, fk_ret, fpc,
                   nameVars, joinVars, connVars>>

RowsDone ==
    /\ fpc = "rows" /\ row_idx > Len(rows)
    /\ fpc' = "entries"
    /\ UNCHANGED <<_strings, table_name, rows, row_idx, foreign_key_map, key_order, fk_ret,
                   nameVars, joinVars, connVars>>

\* for name in foreign_key_map: the dict hands out its keys in an order of
\* its own; foreign_key = {'name': name}; foreign_key.update(...); ret.append
AppendEntry ==
    /\ fpc = "entries"
    /\ \E key \in DOMAIN foreign_key_map \ {key_order[i] : i \in 1..Len(key_order)} :
          /\ key_order' = Append(key_order, key)
          /\ fk_ret' = Append(fk_ret, update([x \in {"name"} |-> key], foreign_key_map[key]))
    /\ UNCHANGED <<_strings, table_name, rows, row_idx, foreign_key_map, fpc,
                   nameVars, joinVars, connVars>>

ReturnKeys ==
    /\ fpc = "entries"
    /\ DOMAIN foreign_key_map = {key_order[i] : i \in 1..Len(key_order)}
    /\ fpc' = "returned"
    /\ UNCHANGED <<_strings, table_name, rows, row_idx, foreign_key_map, key_order, fk_ret,
                   nameVars, joinVars, connVars>>

NextFk == TakeRow \/ PassRow \/ RowsDone \/ AppendEntry \/ ReturnKeys
SpecFk == InitFk /\ [][NextFk]_vars

\* the rows of the requested table that carry the key name k, in row order
RowsOf(k) ==
    SelectSeq(rows, LAMBDA r : r.fk_name = k
                               /\ normalize_name(r.fk_table_name).text = table_name.text)
KeyNames == {k \in {rows[i].fk_name : i \in 1..Len(rows)} : RowsOf(k) # <<>>}

\* C10: get_foreign_keys returns one entry for each key name found among the
\* rows whose normalized fk_table_name equals table_name, and no other; an
\* entry's constrained_columns and referred_columns pair up the columns of
\* those rows in row order (so they are equally long), its referred_schema
\* and referred_table are the first such row's; rows of other tables add
\* nothing.
C10_ForeignKeys ==
    fpc = "returned" =>
        /\ Len(fk_ret) = Cardinality(KeyNames)
        /\ {fk_ret[i]["name"] : i \in 1..Len(fk_ret)} = KeyNames
        /\ \A i \in 1..Len(fk_ret) :
              LET e == fk_ret[i]
                  mine == RowsOf(e["name"])
              IN  /\ Len(e["constrained_columns"]) = Len(mine)
                  /\ Len(e["referred_columns"]) = Len(mine)
                  /\ \A j \in 1..Len(mine) :
                        /\ e["constrained_columns"][j] = normalize_name(mine[j].fk_column_name)
                        /\ e["referred_columns"][j] = normalize_name(mine[j].pk_column_name)
                  /\ e["referred_schema"] = normalize_name(mine[1].pk_schema_name)
                  /\ e["referred_table"] = normalize_name(mine[1].pk_table_name)
C10_Witness ==
    /\ fpc = "returned"
    /\ Len(rows) >= 2
    /\ Len(fk_ret) = 1
    /\ Len(fk_ret[1]["constrained_columns"]) = 2
    /\ rows[1].pk_table_name # rows[2].pk_table_name
    /\ fk_ret[1]["referred_table"] = normalize_name(rows[1].pk_table_name)

=============================================================================
